---- MODULE Spec2Model ----
(***************************************************************************)
(* Multi-key LLM rate limiter (RobustMultiKeyRateLimiter), retry loop      *)
(* (RobustGroqLLMClient.generate_summary_with_guarantee) and the           *)
(* GuaranteedLLMProcessor of prototype/llm and of github_docs.py.          *)
(*                                                                         *)
(* Time is counted in milliseconds (Sec per second); products of a time    *)
(* and a float factor are truncated to the millisecond.                    *)
(***************************************************************************)
EXTENDS Integers, Sequences, FiniteSets, TLC

VARIABLES
    variant,            \* which processor built the limiter: "optimized" | "guaranteed"
    now,                \* time.time()
    key_usage,          \* self.key_usage   : key -> sequence of <<timestamp, tokens>>
    key_last_call,      \* self.key_last_call
    key_failures,       \* self.key_failures
    key_cooldown,       \* self.key_cooldown
    key_health,         \* self.key_health
    key_success_count,  \* self.key_success_count
    lock,               \* self.lock : Free or the caller that holds it
    pc,                 \* per thread: "idle" or the method in whose `with self.lock` it is blocked
    ret,                \* what the latest tracker call returned (NoRet when the last step was no such call)
    ncalls,             \* number of mutating tracker calls made so far by the driver threads
    files,              \* files_data / file_analyses: the input files, by position
    summary,            \* llm_summary of each file
    tpc,                \* position of the task (coroutine) that processes each file
    attempt,            \* loop variable `attempt` of generate_summary_with_guarantee
    task_key,           \* api_key the task's current attempt uses
    wake,               \* time at which the task's current suspension ends
    gate_start,         \* start_time of the task's wait_for_available_key_async call
    gate_attempt,       \* `attempt` of the task's wait_for_available_key_async call
    sem,                \* free permits of self.semaphore
    run,                \* the processor's run: "idle", "running", "returned", "raised"
    err_file,           \* the file named by the exception the run raised (0: none)
    output,             \* the list the run returned
    status,             \* response.status of the task's latest attempt (0: no response)
    nfaults,            \* server errors and client timeouts the provider has produced so far
    gate_budget,        \* max_wait_time of the task's wait_for_available_key_async call
    concurrency,        \* max_concurrent argument of processor.py's constructor (github_docs.py has none)
    frame               \* per thread: the call it is in, with its arguments and the value it has read

tvars == <<key_usage, key_last_call, key_failures, key_cooldown, key_health, key_success_count>>
dvars == <<pc, ret, ncalls>>
pvars == <<files, summary, tpc, attempt, task_key, wake, gate_start, gate_attempt, sem, run,
           err_file, output, status, nfaults, gate_budget, concurrency, frame>>
vars  == <<variant, now, key_usage, key_last_call, key_failures, key_cooldown, key_health,
           key_success_count, lock, pc, ret, ncalls, files, summary, tpc, attempt, task_key,
           wake, gate_start, gate_attempt, sem, run, err_file, output, status, nfaults,
           gate_budget, concurrency, frame>>

----------------------------------------------------------------------------
(* Bounds of the model *)

NumKeys     == 2     \* len(api_keys)
NumThreads  == 2     \* threads that call the tracker directly
MaxCalls    == 3     \* mutating tracker calls per behaviour of the threads
MaxSeqCalls == 7     \* mutating tracker calls per behaviour of the single caller
MaxClock    == 71    \* seconds the clock runs while the threads call the tracker
NumFiles    == 2     \* len(files_data)
MaxConcurrent == 2   \* largest max_concurrent the optimized processor is constructed with
MaxServerErrors == 2 \* HTTP 5xx responses per run
MaxTimeouts == 1     \* requests per run that are answered late or run into the client timeout
MaxSelectCalls == 5  \* health updates before and between the selections of one caller
MaxWaitCalls == 3    \* mark_key_failed calls of the caller that asks for the wait
MaxRateLimits == 7   \* consecutive mark_key_failed(key, "rate_limit") calls
MaxFunctions == 2    \* functions extracted from a file given to the filter
MaxGateFaults == 4   \* mark_key_failed calls around one caller of wait_for_available_key_async

(* Program constants *)

Sec == 1000          \* milliseconds per second of time.time()

Keys    == 1..NumKeys
Threads == 1..NumThreads
Files   == 1..NumFiles
Free    == 0
NoRet   == [op |-> "none"]
NoFile  == [path |-> "none"]
NoCall  == [op |-> "none"]

StartTime == 100 * Sec   \* time.time() at construction; the epoch (0) is long past

Min(a, b) == IF a < b THEN a ELSE b
Max(a, b) == IF a > b THEN a ELSE b

\* api_keys: the list the limiter is constructed with, in list order
api_keys == [i \in 1..NumKeys |-> i]

\* constructor arguments passed by the two processors
max_tokens_per_minute == IF variant = "optimized" THEN 3000 ELSE 3500

\* 1.0 / max_calls_per_second, with max_calls_per_second 1.0 resp. 1.2
min_call_interval == IF variant = "optimized" THEN (10 * Sec) \div 10 ELSE (10 * Sec) \div 12

\* token counts a caller may pass: exactly the per-minute budget, and more than it
Costs == {max_tokens_per_minute, max_tokens_per_minute + 500}

ErrorTypes == {"rate_limit", "server_error"}

----------------------------------------------------------------------------
(* threading.Lock *)

\* an acquire that does not wait for the holder
LockAcquirable_unguarded(holder, c) == TRUE

\* threading.Lock.acquire: succeeds only when nobody holds the lock, the
\* calling thread included (the lock is not reentrant)
LockAcquirable(holder, c) == holder = Free

----------------------------------------------------------------------------
(* RobustMultiKeyRateLimiter: bodies of the methods, inside `with self.lock` *)

\* the tracker's fields as one value
Tracker ==
    [key_usage |-> key_usage, key_last_call |-> key_last_call, key_failures |-> key_failures,
     key_cooldown |-> key_cooldown, key_health |-> key_health,
     key_success_count |-> key_success_count]

\* the tracker's fields become those of t
SetTracker(t) ==
    /\ key_usage' = t.key_usage
    /\ key_last_call' = t.key_last_call
    /\ key_failures' = t.key_failures
    /\ key_cooldown' = t.key_cooldown
    /\ key_health' = t.key_health
    /\ key_success_count' = t.key_success_count

\* body of update_key_health applied to tracker t
update_key_health(t, api_key, success) ==
    IF success
    THEN [t EXCEPT !.key_success_count[api_key] = @ + 1,
                   !.key_health[api_key] = Min(100, @ + 5),
                   !.key_failures[api_key] = Max(0, @ - 1)]
    ELSE [t EXCEPT !.key_failures[api_key] = @ + 1,
                   !.key_health[api_key] = Max(0, @ - 10)]

base_cooldown(error_type) == IF error_type = "rate_limit" THEN 30 ELSE 10

\* the cooldown without the cap of its failure_multiplier
cooldown_seconds_uncapped(failures, error_type) == base_cooldown(error_type) * failures

cooldown_seconds(failures, error_type) == base_cooldown(error_type) * Min(failures, 5)

\* mark_key_failed without the floor on the health score
mark_key_failed_unfloored(t, api_key, error_type) ==
    [t EXCEPT !.key_failures[api_key] = @ + 1,
              !.key_cooldown[api_key] =
                  now + cooldown_seconds(t.key_failures[api_key] + 1, error_type) * Sec,
              !.key_health[api_key] = @ - 15]

\* body of mark_key_failed applied to tracker t at time `now`
mark_key_failed(t, api_key, error_type) ==
    [t EXCEPT !.key_failures[api_key] = @ + 1,
              !.key_cooldown[api_key] =
                  now + cooldown_seconds(t.key_failures[api_key] + 1, error_type) * Sec,
              !.key_health[api_key] = Max(0, @ - 15)]

RECURSIVE SumTokens(_)
SumTokens(usage) == IF usage = <<>> THEN 0 ELSE Head(usage)[2] + SumTokens(Tail(usage))

RECURSIVE OldestTime(_)
OldestTime(usage) ==
    IF Len(usage) = 1 THEN usage[1][1] ELSE Min(usage[1][1], OldestTime(Tail(usage)))

InCooldown(key) == now < key_cooldown[key]

\* [(ts, tokens) for ts, tokens in self.key_usage[key] if ts > minute_ago]
CleanedUsage(key) == SelectSeq(key_usage[key], LAMBDA e : e[1] > now - 60 * Sec)

\* key_usage as the first loop of get_best_available_key leaves it: keys in
\* cooldown are skipped before the cleaning, all others are cleaned
UsageAfterScan == [key \in Keys |-> IF InCooldown(key) THEN key_usage[key] ELSE CleanedUsage(key)]

current_tokens(key) == SumTokens(CleanedUsage(key))

\* the first loop without its cooldown test
Available_ignoring_cooldown(key, estimated_tokens) ==
    /\ ~(current_tokens(key) + estimated_tokens > max_tokens_per_minute)
    /\ ~(now - key_last_call[key] < min_call_interval)

\* the first loop without its token-limit test
Available_ignoring_tokens(key, estimated_tokens) ==
    /\ ~InCooldown(key)
    /\ ~(now - key_last_call[key] < min_call_interval)

\* a key survives the three `continue` tests of the first loop
Available(key, estimated_tokens) ==
    /\ ~InCooldown(key)
    /\ ~(current_tokens(key) + estimated_tokens > max_tokens_per_minute)
    /\ ~(now - key_last_call[key] < min_call_interval)

\* the score without its health_bonus
ScoreOptimized_without_health(key) ==
    (0 - key_failures[key] * 10) * max_tokens_per_minute - 50 * current_tokens(key)

\* score of prototype/llm/rate_limiter.py times max_tokens_per_minute (higher is better):
\* health_bonus - usage_ratio * 50 - failure_penalty
ScoreOptimized(key) ==
    (key_health[key] - key_failures[key] * 10) * max_tokens_per_minute - 50 * current_tokens(key)

\* score of the effective definition in github_docs.py times max_tokens_per_minute
\* (lower is better): key_failures + current_tokens / max_tokens_per_minute
ScoreGuaranteed(key) == key_failures[key] * max_tokens_per_minute + current_tokens(key)

\* the sort with equal scores in reversed list order
SortedBefore_ties_reversed(a, b) ==
    IF variant = "optimized"
    THEN ScoreOptimized(a) > ScoreOptimized(b) \/ (ScoreOptimized(a) = ScoreOptimized(b) /\ a >= b)
    ELSE ScoreGuaranteed(a) < ScoreGuaranteed(b) \/ (ScoreGuaranteed(a) = ScoreGuaranteed(b) /\ a >= b)

\* key a is sorted before key b: list.sort is stable, also with reverse=True
SortedBefore(a, b) ==
    IF variant = "optimized"
    THEN ScoreOptimized(a) > ScoreOptimized(b) \/ (ScoreOptimized(a) = ScoreOptimized(b) /\ a <= b)
    ELSE ScoreGuaranteed(a) < ScoreGuaranteed(b) \/ (ScoreGuaranteed(a) = ScoreGuaranteed(b) /\ a <= b)

AvailableKeys(estimated_tokens) == {key \in Keys : Available(key, estimated_tokens)}

BestKey(estimated_tokens) ==
    CHOOSE a \in AvailableKeys(estimated_tokens) :
        \A b \in AvailableKeys(estimated_tokens) : SortedBefore(a, b)

\* the second loop without its cooldown_wait
key_wait_ignoring_cooldown(key) ==
    LET usage == UsageAfterScan[key]
        token_wait == IF usage # <<>> THEN Max(0, 61 * Sec - (now - OldestTime(usage))) ELSE 0
        call_wait == Max(0, min_call_interval - (now - key_last_call[key]))
    IN  Max(token_wait, call_wait)

\* second loop: the wait after which one key may be usable
key_wait(key) ==
    LET usage == UsageAfterScan[key]
        cooldown_wait == Max(0, key_cooldown[key] - now)
        token_wait == IF usage # <<>> THEN Max(0, 61 * Sec - (now - OldestTime(usage))) ELSE 0
        call_wait == Max(0, min_call_interval - (now - key_last_call[key]))
    IN  Max(cooldown_wait, Max(token_wait, call_wait))

\* min_wait after the second loop: the least key_wait over all keys
min_wait ==
    CHOOSE w \in {key_wait(key) : key \in Keys} : \A v \in {key_wait(key) : key \in Keys} : w <= v

\* floor of the reported wait: 2.0 s in prototype/llm/rate_limiter.py, 1.0 s in github_docs.py
min_reported_wait == IF variant = "optimized" THEN 2 * Sec ELSE 1 * Sec

\* the tuple get_best_available_key returns
get_best_available_key_result(estimated_tokens) ==
    IF AvailableKeys(estimated_tokens) # {}
    THEN [key |-> BestKey(estimated_tokens), wait |-> 0]
    ELSE [key |-> api_keys[1], wait |-> Max(min_wait, min_reported_wait)]

\* a selection that also clears the cooldowns that are over
get_best_available_key_clearing_cooldowns(t) ==
    [t EXCEPT !.key_usage = UsageAfterScan,
              !.key_cooldown = [key \in Keys |-> IF InCooldown(key) THEN t.key_cooldown[key] ELSE 0]]

\* the tracker as get_best_available_key leaves it
get_best_available_key(t) == [t EXCEPT !.key_usage = UsageAfterScan]

\* record_request by caller c, who has just taken the lock: appends the charge,
\* sets key_last_call, then calls update_key_health, which takes the lock
\* again.  Yields the tracker, the lock holder and whether c is left blocked
\* in that second acquire.
record_request(t, c, api_key, tokens_used, success) ==
    LET charged == [t EXCEPT !.key_usage[api_key] = Append(@, <<now, tokens_used>>),
                             !.key_last_call[api_key] = now]
    IN  IF LockAcquirable(c, c)
        THEN [tracker |-> update_key_health(charged, api_key, success),
              holder |-> Free, blocked |-> FALSE]
        ELSE [tracker |-> charged, holder |-> c, blocked |-> TRUE]

\* key a is sorted before key b by the get_best_available_key of
\* prototype/llm/rate_limiter.py ("optimized") or by the definition that is
\* effective in github_docs.py ("guaranteed": the second one of the class)
Precedes(definition, a, b) ==
    IF definition = "optimized"
    THEN ScoreOptimized(a) > ScoreOptimized(b) \/ (ScoreOptimized(a) = ScoreOptimized(b) /\ a <= b)
    ELSE ScoreGuaranteed(a) < ScoreGuaranteed(b) \/ (ScoreGuaranteed(a) = ScoreGuaranteed(b) /\ a <= b)

\* the tuple the named definition of get_best_available_key returns for the
\* tracker's state, whichever processor constructed the tracker
get_best_available_key_of(definition, estimated_tokens) ==
    IF AvailableKeys(estimated_tokens) # {}
    THEN [key |-> CHOOSE a \in AvailableKeys(estimated_tokens) :
                     \A b \in AvailableKeys(estimated_tokens) : Precedes(definition, a, b),
          wait |-> 0]
    ELSE [key |-> api_keys[1],
          wait |-> Max(min_wait, IF definition = "optimized" THEN 2 * Sec ELSE 1 * Sec)]

\* get_key_stats with the cooldown_remaining not floored at 0
get_key_stats_result_unfloored ==
    [key \in Keys |-> [health |-> key_health[key],
                       failures |-> key_failures[key],
                       successes |-> key_success_count[key],
                       in_cooldown |-> now < key_cooldown[key],
                       cooldown_remaining |-> key_cooldown[key] - now]]

\* get_key_stats: the values reported per key
get_key_stats_result ==
    [key \in Keys |-> [health |-> key_health[key],
                       failures |-> key_failures[key],
                       successes |-> key_success_count[key],
                       in_cooldown |-> now < key_cooldown[key],
                       cooldown_remaining |-> Max(0, key_cooldown[key] - now)]]

----------------------------------------------------------------------------
(* Driver: threads that call the tracker's methods directly *)

TypeOK ==
    /\ variant \in {"optimized", "guaranteed"}
    /\ now \in Nat
    /\ \A k \in Keys : key_health[k] \in Int /\ key_failures[k] \in Int
    /\ lock \in {Free} \cup Threads \cup Files

\* RobustMultiKeyRateLimiter.__init__
InitLimiter ==
    /\ key_usage = [k \in Keys |-> <<>>]
    /\ key_last_call = [k \in Keys |-> 0]
    /\ key_failures = [k \in Keys |-> 0]
    /\ key_cooldown = [k \in Keys |-> 0]
    /\ key_health = [k \in Keys |-> 100]
    /\ key_success_count = [k \in Keys |-> 0]
    /\ lock = Free

\* no thread has called the tracker
InitDriver ==
    /\ pc = [c \in Threads |-> "idle"]
    /\ ret = NoRet
    /\ ncalls = 0

\* no processor run
InitNoRun ==
    /\ files = [f \in Files |-> NoFile]
    /\ summary = [f \in Files |-> "None"]
    /\ tpc = [f \in Files |-> "none"]
    /\ attempt = [f \in Files |-> 0]
    /\ task_key = [f \in Files |-> 0]
    /\ wake = [f \in Files |-> 0]
    /\ gate_start = [f \in Files |-> 0]
    /\ gate_attempt = [f \in Files |-> 0]
    /\ sem = 0
    /\ run = "idle"
    /\ err_file = 0
    /\ output = <<>>
    /\ status = [f \in Files |-> 0]
    /\ nfaults = [server_errors |-> 0, timeouts |-> 0]
    /\ gate_budget = [f \in Files |-> 0]
    /\ concurrency = 1
    /\ frame = [c \in Threads |-> NoCall]

InitTracker ==
    /\ variant = "optimized"
    /\ now = StartTime
    /\ InitLimiter
    /\ InitDriver
    /\ InitNoRun

\* the clock advances
TickSteps == {10 * Sec, 61 * Sec}

Tick ==
    \E d \in TickSteps :
        /\ now + d <= StartTime + MaxClock * Sec
        /\ now' = now + d
        /\ ret' = NoRet
        /\ UNCHANGED <<variant, tvars, lock, pc, ncalls, pvars>>

CallUpdateKeyHealth(c, budget) ==
    \E k \in Keys, success \in BOOLEAN :
        /\ pc[c] = "idle" /\ ncalls < budget
        /\ LockAcquirable(lock, c)
        /\ SetTracker(update_key_health(Tracker, k, success))
        /\ ret' = NoRet
        /\ ncalls' = ncalls + 1
        /\ UNCHANGED <<variant, now, lock, pc, pvars>>

CallMarkKeyFailed(c, budget) ==
    \E k \in Keys, e \in ErrorTypes :
        /\ pc[c] = "idle" /\ ncalls < budget
        /\ LockAcquirable(lock, c)
        /\ SetTracker(mark_key_failed(Tracker, k, e))
        /\ ret' = NoRet
        /\ ncalls' = ncalls + 1
        /\ UNCHANGED <<variant, now, lock, pc, pvars>>

CallGetBestAvailableKey(c) ==
    \E est \in Costs :
        /\ pc[c] = "idle"
        /\ LockAcquirable(lock, c)
        /\ SetTracker(get_best_available_key(Tracker))
        /\ ret' = [op |-> "get_best_available_key", estimated_tokens |-> est,
                   key |-> get_best_available_key_result(est).key,
                   wait |-> get_best_available_key_result(est).wait]
        /\ UNCHANGED <<variant, now, lock, pc, ncalls, pvars>>

CallGetKeyStats(c) ==
    /\ pc[c] = "idle"
    /\ LockAcquirable(lock, c)
    /\ ret' = [op |-> "get_key_stats", stats |-> get_key_stats_result]
    /\ UNCHANGED <<variant, now, tvars, lock, pc, ncalls, pvars>>

CallRecordRequest(c, budget) ==
    \E k \in Keys, tokens \in Costs, success \in BOOLEAN :
        /\ pc[c] = "idle" /\ ncalls < budget
        /\ LockAcquirable(lock, c)
        /\ LET r == record_request(Tracker, c, k, tokens, success)
           IN  /\ SetTracker(r.tracker)
               /\ lock' = r.holder
               /\ pc' = [pc EXCEPT ![c] = IF r.blocked THEN "update_key_health" ELSE "idle"]
        /\ frame' = [frame EXCEPT ![c] = [op |-> "record_request", key |-> k, arg |-> success,
                                          tokens_used |-> tokens]]
        /\ ret' = NoRet
        /\ ncalls' = ncalls + 1
        /\ UNCHANGED <<variant, now, files, summary, tpc, attempt, task_key, wake, gate_start,
                       gate_attempt, sem, run, err_file, output, status, nfaults, gate_budget,
                       concurrency>>

\* a call made while the lock is held: the thread blocks in `with self.lock`
TrackerMethods == {"update_key_health", "mark_key_failed", "get_best_available_key",
                   "record_request", "get_key_stats"}

CallBlocks(c) ==
    \E m \in TrackerMethods :
        /\ pc[c] = "idle"
        /\ ~LockAcquirable(lock, c)
        /\ pc' = [pc EXCEPT ![c] = m]
        /\ ret' = NoRet
        /\ UNCHANGED <<variant, now, tvars, lock, ncalls, pvars>>

NextTracker ==
    \/ Tick
    \/ \E c \in Threads : CallUpdateKeyHealth(c, MaxCalls)
    \/ \E c \in Threads : CallMarkKeyFailed(c, MaxCalls)
    \/ \E c \in Threads : CallGetBestAvailableKey(c)
    \/ \E c \in Threads : CallGetKeyStats(c)
    \/ \E c \in Threads : CallRecordRequest(c, MaxCalls)
    \/ \E c \in Threads : CallBlocks(c)

SpecTracker == InitTracker /\ [][NextTracker]_vars

\* the threads are scheduled fairly: a call that can proceed does proceed
FairSpecTracker == SpecTracker /\ WF_vars(NextTracker)

----------------------------------------------------------------------------
(* Driver: one caller that makes a sequence of mutating tracker calls *)

NextSeq ==
    \/ CallUpdateKeyHealth(1, MaxSeqCalls)
    \/ CallMarkKeyFailed(1, MaxSeqCalls)
    \/ CallRecordRequest(1, MaxSeqCalls)

SpecSeq == InitTracker /\ [][NextSeq]_vars

----------------------------------------------------------------------------
(* Input files and the eligibility filters *)

\* A file as the filters see it: what the path tests of each filter yield
\* for its path, the extracted counts, and whether file_contents holds it.
File(path, service_backend, names_service, names_backend, names_main, config_optimized, config_guaranteed, functions, classes, api_endpoints, content) ==
    [path |-> path, service_backend |-> service_backend, names_service |-> names_service,
     names_backend |-> names_backend, names_main |-> names_main,
     config_optimized |-> config_optimized, config_guaranteed |-> config_guaranteed,
     functions |-> functions, classes |-> classes, api_endpoints |-> api_endpoints,
     content |-> content]

RoutesPy == File("server/routes.py", FALSE, TRUE, TRUE, FALSE, FALSE, FALSE, 2, 0, 0, "text")
HandlersPy == File("api/handlers.py", FALSE, TRUE, TRUE, FALSE, FALSE, FALSE, 1, 0, 1, "text")
AuthPy == File("services/auth.py", FALSE, TRUE, TRUE, FALSE, FALSE, FALSE, 1, 1, 0, "missing")
HelpersPy == File("utils/helpers.py", FALSE, FALSE, TRUE, FALSE, FALSE, FALSE, 1, 0, 0, "text")
PackageJson == File("package.json", FALSE, FALSE, FALSE, FALSE, TRUE, TRUE, 0, 0, 0, "text")
BulkRoutesPy == File("api/bulk_routes.py", FALSE, TRUE, TRUE, FALSE, FALSE, FALSE, 2, 0, 0, "long")

\* the files a run may be given; content is what file_contents holds for the
\* path: "text", "long" (text whose prompt exceeds the per-minute budget),
\* "empty" ('') or "missing" (no entry)
InputFiles == {RoutesPy, HandlersPy, AuthPy, PackageJson}

\* lists of NumFiles files of distinct paths
InputLists ==
    {fs \in [Files -> InputFiles] : \A f, g \in Files : fs[f].path = fs[g].path => f = g}

\* _should_process_file_optimized
ShouldProcessOptimized(file) ==
    /\ file.service_backend \/ file.names_service
    /\ file.functions > 0 \/ file.api_endpoints > 0 \/ file.classes > 0
    /\ ~file.config_optimized

\* _should_process_with_llm_guaranteed
ShouldProcessGuaranteed(file) ==
    /\ file.api_endpoints > 0 \/ file.names_backend \/ file.names_main
    /\ file.functions > 0
    /\ ~file.config_guaranteed

\* the filter of the processor that runs
ShouldProcess(file) ==
    IF variant = "optimized" THEN ShouldProcessOptimized(file) ELSE ShouldProcessGuaranteed(file)

\* the files for which the run creates a task
HasTask(file) ==
    IF variant = "optimized"
    THEN ShouldProcessOptimized(file) /\ file.content \in {"text", "long"}
    ELSE ShouldProcessGuaranteed(file) /\ file.content # "missing"

----------------------------------------------------------------------------
(* generate_summary_with_guarantee and wait_for_available_key_async *)

max_retries == 15
retry_delays == <<1, 2, 5, 10, 15, 20, 30, 45, 60, 90, 120, 180, 240, 300, 360>>

\* the delay indexed by the number of the attempt that follows
retry_delay_of_next_attempt(att) == retry_delays[Min(att + 1, Len(retry_delays) - 1) + 1] * Sec

\* retry_delays[min(attempt, len(retry_delays) - 1)], in milliseconds
retry_delay(att) == retry_delays[Min(att, Len(retry_delays) - 1) + 1] * Sec

\* max_wait_time=600 of the call in generate_summary_with_guarantee
max_wait_time == 600 * Sec

\* aiohttp.ClientTimeout(total=60)
http_timeout == 60 * Sec

\* time after which the provider answers a request that does not time out
NetLatency == Sec \div 2

\* time after which the provider answers when it is slow, still within the client timeout
LateLatency == 5 * Sec

\* self.rate_limiter.estimate_tokens(prompt) of the prompt of task f's file:
\* len(prompt) // 2 + 200, half the per-minute budget for a prompt of usual
\* size and more than the budget for a long one (the prompt has no cap)
estimated_tokens(f) ==
    IF files[f].path # "none" /\ files[f].content = "long"
    THEN max_tokens_per_minute + 500
    ELSE max_tokens_per_minute \div 2

\* max(self.api_keys, key=lambda k: self.key_health.get(k, 0)): the first key of maximal health
healthiest_key ==
    CHOOSE a \in Keys : \A b \in Keys :
        key_health[a] > key_health[b] \/ (key_health[a] = key_health[b] /\ a <= b)

\* min(wait_time * (1 + attempt * 0.2), 60)
adaptive_wait(wait_time, gattempt) == Min((wait_time * (10 + 2 * gattempt)) \div 10, 60 * Sec)

\* wait_for_available_key_async from the head of its loop, up to its return
\* or its next sleep: whether get_best_available_key was called, and the
\* key returned or the time to sleep
GateLoop_ignoring_remaining(start, gattempt, budget, est) ==
    IF ~(now - start < budget)
    THEN [called |-> FALSE, kind |-> "key", key |-> healthiest_key, delay |-> 0]
    ELSE LET r == get_best_available_key_result(est)
             w == adaptive_wait(r.wait, gattempt)
         IN  IF r.wait = 0
             THEN [called |-> TRUE, kind |-> "key", key |-> r.key, delay |-> 0]
             ELSE [called |-> TRUE, kind |-> "sleep", key |-> 0, delay |-> w]

GateLoop(start, gattempt, budget, est) ==
    IF ~(now - start < budget)
    THEN [called |-> FALSE, kind |-> "key", key |-> healthiest_key, delay |-> 0]
    ELSE LET r == get_best_available_key_result(est)
             w == adaptive_wait(r.wait, gattempt)
         IN  IF r.wait = 0
             THEN [called |-> TRUE, kind |-> "key", key |-> r.key, delay |-> 0]
             ELSE IF w > budget - (now - start)
                  THEN [called |-> TRUE, kind |-> "key", key |-> healthiest_key, delay |-> 0]
                  ELSE [called |-> TRUE, kind |-> "sleep", key |-> 0, delay |-> w]

\* the task-local variables of task f
SetTask(f, position, att, key, until, gstart, gattempt) ==
    /\ tpc' = [tpc EXCEPT ![f] = position]
    /\ attempt' = [attempt EXCEPT ![f] = att]
    /\ task_key' = [task_key EXCEPT ![f] = key]
    /\ wake' = [wake EXCEPT ![f] = until]
    /\ gate_start' = [gate_start EXCEPT ![f] = gstart]
    /\ gate_attempt' = [gate_attempt EXCEPT ![f] = gattempt]

\* task f runs wait_for_available_key_async from the head of its loop; with a
\* key it goes on to session.post and waits for the response
RunGate(f, att, start, gattempt) ==
    LET g == GateLoop(start, gattempt, gate_budget[f], estimated_tokens(f))
    IN  /\ SetTracker(IF g.called THEN get_best_available_key(Tracker) ELSE Tracker)
        /\ IF g.kind = "key"
           THEN SetTask(f, "request", att, g.key, now + NetLatency, start, gattempt)
           ELSE SetTask(f, "gate_sleep", att, task_key[f], now + g.delay, start, gattempt)

\* the event-loop thread is stuck in a lock acquire of one of the tasks
ThreadBlocked == \E f \in Files : tpc[f] = "blocked"

Waiting == {"sem_wait", "queued"}
Suspended == {"gate_sleep", "request", "request_slow", "retry_sleep"}
InsideGenerate == Suspended \cup {"blocked"}
Finished == {"succeeded", "exhausted"}

\* max_concurrent: constructor argument in processor.py,
\* min(len(api_keys) * 1, 4) in github_docs.py
max_concurrent == IF variant = "optimized" THEN concurrency ELSE Min(NumKeys * 1, 4)

\* task f is at a response of its request
AtResponse(f) ==
    /\ run = "running" /\ ~ThreadBlocked
    /\ tpc[f] = "request" /\ wake[f] <= now

\* task f leaves the semaphore block with a summary from the LLM
Succeed(f) ==
    /\ summary' = [summary EXCEPT ![f] = "llm"]
    /\ SetTask(f, "succeeded", attempt[f], task_key[f], wake[f], gate_start[f], gate_attempt[f])
    /\ sem' = sem + 1
    /\ UNCHANGED <<run, err_file, output>>

\* generate_summary_with_guarantee raises after max_retries attempts:
\* processor.py catches it and sets a placeholder, github_docs.py re-raises
\* and process_files_with_guarantee raises in turn
Exhaust(f, att) ==
    /\ SetTask(f, "exhausted", att, task_key[f], wake[f], gate_start[f], gate_attempt[f])
    /\ sem' = sem + 1
    /\ IF variant = "optimized"
       THEN /\ summary' = [summary EXCEPT ![f] = "Backend file"]
            /\ UNCHANGED <<run, err_file>>
       ELSE /\ run' = "raised"
            /\ err_file' = f
            /\ UNCHANGED summary
    /\ UNCHANGED output

\* await asyncio.sleep(retry_delay) after a failed attempt
RetrySleep(f) ==
    /\ SetTask(f, "retry_sleep", attempt[f], task_key[f], now + retry_delay(attempt[f]),
               gate_start[f], gate_attempt[f])
    /\ UNCHANGED <<summary, sem, run, err_file, output>>

\* the task is stuck in record_request
Block(f) ==
    /\ SetTask(f, "blocked", attempt[f], task_key[f], wake[f], gate_start[f], gate_attempt[f])
    /\ UNCHANGED <<summary, sem, run, err_file, output>>

----------------------------------------------------------------------------
(* GuaranteedLLMProcessor: one run over NumFiles files *)

InitProc ==
    /\ variant \in {"optimized", "guaranteed"}
    /\ now = StartTime
    /\ InitLimiter
    /\ InitDriver
    /\ files \in InputLists
    /\ concurrency \in IF variant = "optimized" THEN 1..MaxConcurrent ELSE {1}
    /\ summary = [f \in Files |-> "None"]
    /\ tpc = [f \in Files |-> "none"]
    /\ attempt = [f \in Files |-> 0]
    /\ task_key = [f \in Files |-> 0]
    /\ wake = [f \in Files |-> 0]
    /\ gate_start = [f \in Files |-> 0]
    /\ gate_attempt = [f \in Files |-> 0]
    /\ sem = max_concurrent
    /\ run = "idle"
    /\ err_file = 0
    /\ output = <<>>
    /\ status = [f \in Files |-> 0]
    /\ nfaults = [server_errors |-> 0, timeouts |-> 0]
    /\ gate_budget = [f \in Files |-> max_wait_time]
    /\ frame = [c \in Threads |-> NoCall]

\* the input list, by position
AllFiles == [i \in 1..NumFiles |-> i]

\* skipped_files + results of process_files_with_guarantee
SkippedThenResults ==
    SelectSeq(AllFiles, LAMBDA f : ~HasTask(files[f])) \o
    SelectSeq(AllFiles, LAMBDA f : HasTask(files[f]))

\* process_files_with_llm_optimized / process_files_with_guarantee up to the
\* first suspension: the filter, the placeholders of github_docs.py, the
\* tasks; the run returns at once when there is nothing to process
ProcStart ==
    /\ run = "idle"
    /\ summary' = [f \in Files |->
                      IF variant = "guaranteed" /\ ~HasTask(files[f]) THEN "Code file"
                      ELSE summary[f]]
    /\ tpc' = [f \in Files |->
                  IF HasTask(files[f])
                  THEN (IF variant = "optimized" THEN "sem_wait" ELSE "queued")
                  ELSE "none"]
    /\ IF \E f \in Files : HasTask(files[f])
       THEN run' = "running" /\ output' = output
       ELSE run' = "returned" /\ output' = AllFiles
    /\ UNCHANGED <<variant, now, tvars, lock, dvars, files, attempt, task_key, wake,
                   gate_start, gate_attempt, sem, err_file>>
    /\ UNCHANGED <<status, nfaults, gate_budget, concurrency, frame>>

\* task f may enter: gather's tasks take the semaphore in order, the loop of
\* process_files_with_guarantee awaits each file before the next
MayEnter(f) ==
    /\ run = "running" /\ ~ThreadBlocked
    /\ tpc[f] \in Waiting
    /\ \A g \in Files : g < f => tpc[g] \notin Waiting
    /\ IF tpc[f] = "queued"
       THEN \A g \in Files : tpc[g] \in {"none", "queued", "succeeded"}
       ELSE sem > 0

\* `async with self.semaphore`, then the first attempt up to its first suspension
TaskEnter(f) ==
    /\ MayEnter(f)
    /\ sem' = sem - 1
    /\ RunGate(f, 0, now, 0)
    /\ UNCHANGED <<variant, now, lock, dvars, files, summary, run, err_file, output>>
    /\ UNCHANGED <<status, nfaults, gate_budget, concurrency, frame>>

\* the sleep inside wait_for_available_key_async is over
GateWake(f) ==
    /\ run = "running" /\ ~ThreadBlocked
    /\ tpc[f] = "gate_sleep" /\ wake[f] <= now
    /\ RunGate(f, attempt[f], gate_start[f], gate_attempt[f] + 1)
    /\ UNCHANGED <<variant, now, lock, dvars, files, summary, sem, run, err_file, output>>
    /\ UNCHANGED <<status, nfaults, gate_budget, concurrency, frame>>

\* HTTP 200
Respond200(f) ==
    /\ AtResponse(f)
    /\ LET r == record_request(Tracker, f, task_key[f], estimated_tokens(f), TRUE)
       IN  /\ SetTracker(r.tracker)
           /\ lock' = r.holder
           /\ IF r.blocked THEN Block(f) ELSE Succeed(f)
    /\ UNCHANGED <<variant, now, dvars, files>>
    /\ status' = [status EXCEPT ![f] = 200]
    /\ UNCHANGED <<nfaults, gate_budget, concurrency, frame>>

\* HTTP 429
Respond429(f) ==
    /\ AtResponse(f)
    /\ LET r == record_request(mark_key_failed(Tracker, task_key[f], "rate_limit"), f,
                               task_key[f], estimated_tokens(f), FALSE)
       IN  /\ SetTracker(r.tracker)
           /\ lock' = r.holder
           /\ IF r.blocked THEN Block(f) ELSE RetrySleep(f)
    /\ UNCHANGED <<variant, now, dvars, files>>
    /\ status' = [status EXCEPT ![f] = 429]
    /\ UNCHANGED <<nfaults, gate_budget, concurrency, frame>>

\* HTTP 500, 502, 503, 504
Respond5xx(f) ==
    /\ AtResponse(f)
    /\ SetTracker(mark_key_failed(Tracker, task_key[f], "server_error"))
    /\ RetrySleep(f)
    /\ UNCHANGED <<variant, now, lock, dvars, files>>
    /\ nfaults.server_errors < MaxServerErrors
    /\ status' = [status EXCEPT ![f] = 503]
    /\ nfaults' = [nfaults EXCEPT !.server_errors = @ + 1]
    /\ UNCHANGED <<gate_budget, concurrency, frame>>

\* any other HTTP status
RespondOther(f) ==
    /\ AtResponse(f)
    /\ LET r == record_request(Tracker, f, task_key[f], estimated_tokens(f), FALSE)
       IN  /\ SetTracker(r.tracker)
           /\ lock' = r.holder
           /\ IF r.blocked THEN Block(f)
              ELSE IF attempt[f] < max_retries - 1 THEN RetrySleep(f)
              ELSE Exhaust(f, attempt[f] + 1)
    /\ UNCHANGED <<variant, now, dvars, files>>
    /\ status' = [status EXCEPT ![f] = 400]
    /\ UNCHANGED <<nfaults, gate_budget, concurrency, frame>>

\* an except branch that marks the key failed, as the branch of the server errors does
RequestRaises_marking_key(f) ==
    /\ AtResponse(f)
    /\ SetTracker(mark_key_failed(Tracker, task_key[f], "server_error"))
    /\ RetrySleep(f)
    /\ UNCHANGED <<variant, now, lock, dvars, files>>
    /\ status' = [status EXCEPT ![f] = 0]
    /\ UNCHANGED <<nfaults, gate_budget, concurrency, frame>>

\* the request raises (connection error, malformed body): except Exception
RequestRaises(f) ==
    /\ AtResponse(f)
    /\ RetrySleep(f)
    /\ UNCHANGED <<variant, now, tvars, lock, dvars, files>>
    /\ status' = [status EXCEPT ![f] = 0]
    /\ UNCHANGED <<nfaults, gate_budget, concurrency, frame>>

\* no response yet: the request runs on until the client timeout
RequestSlow(f) ==
    /\ AtResponse(f)
    /\ SetTask(f, "request_slow", attempt[f], task_key[f], wake[f] - NetLatency + http_timeout,
               gate_start[f], gate_attempt[f])
    /\ UNCHANGED <<variant, now, tvars, lock, dvars, files, summary, sem, run, err_file, output>>
    /\ nfaults.timeouts < MaxTimeouts
    /\ nfaults' = [nfaults EXCEPT !.timeouts = @ + 1]
    /\ UNCHANGED <<status, gate_budget, concurrency, frame>>

\* the response is late, yet within the client timeout
ResponseIsLate(f) ==
    /\ AtResponse(f)
    /\ nfaults.timeouts < MaxTimeouts
    /\ wake[f] - NetLatency + LateLatency > now
    /\ SetTask(f, "request", attempt[f], task_key[f], wake[f] - NetLatency + LateLatency,
               gate_start[f], gate_attempt[f])
    /\ nfaults' = [nfaults EXCEPT !.timeouts = @ + 1]
    /\ UNCHANGED <<variant, now, tvars, lock, dvars, files, summary, sem, run, err_file, output,
                   status, gate_budget, concurrency, frame>>

\* asyncio.TimeoutError
RequestTimesOut(f) ==
    /\ run = "running" /\ ~ThreadBlocked
    /\ tpc[f] = "request_slow" /\ wake[f] <= now
    /\ RetrySleep(f)
    /\ UNCHANGED <<variant, now, tvars, lock, dvars, files>>
    /\ status' = [status EXCEPT ![f] = 0]
    /\ UNCHANGED <<nfaults, gate_budget, concurrency, frame>>

\* a next attempt that does not wait for the end of the retry delay
RetryWake_before_delay_ends(f) ==
    /\ run = "running" /\ ~ThreadBlocked
    /\ tpc[f] = "retry_sleep"
    /\ IF attempt[f] + 1 < max_retries
       THEN /\ RunGate(f, attempt[f] + 1, now, 0)
            /\ UNCHANGED <<summary, sem, run, err_file, output>>
       ELSE /\ Exhaust(f, attempt[f] + 1)
            /\ UNCHANGED tvars
    /\ UNCHANGED <<variant, now, lock, dvars, files>>
    /\ UNCHANGED <<status, nfaults, gate_budget, concurrency, frame>>

\* the retry delay is over: the next attempt, or the raise after the loop
RetryWake(f) ==
    /\ run = "running" /\ ~ThreadBlocked
    /\ tpc[f] = "retry_sleep" /\ wake[f] <= now
    /\ IF attempt[f] + 1 < max_retries
       THEN /\ RunGate(f, attempt[f] + 1, now, 0)
            /\ UNCHANGED <<summary, sem, run, err_file, output>>
       ELSE /\ Exhaust(f, attempt[f] + 1)
            /\ UNCHANGED tvars
    /\ UNCHANGED <<variant, now, lock, dvars, files>>
    /\ UNCHANGED <<status, nfaults, gate_budget, concurrency, frame>>

\* all tasks are through: the run returns its list
ProcReturn ==
    /\ run = "running" /\ ~ThreadBlocked
    /\ \A f \in Files : tpc[f] \in {"none"} \cup Finished
    /\ run' = "returned"
    /\ output' = IF variant = "optimized" THEN AllFiles ELSE SkippedThenResults
    /\ UNCHANGED <<variant, now, tvars, lock, dvars, files, summary, tpc, attempt, task_key,
                   wake, gate_start, gate_attempt, sem, err_file>>
    /\ UNCHANGED <<status, nfaults, gate_budget, concurrency, frame>>

\* the event loop has nothing to run: time passes until the next wake-up
AdvanceTime ==
    /\ run = "running" /\ ~ThreadBlocked
    /\ \E f \in Files : tpc[f] \in Suspended
    /\ \A f \in Files : tpc[f] \in Suspended => wake[f] > now
    /\ \A f \in Files : ~MayEnter(f)
    /\ now' = CHOOSE t \in {wake[f] : f \in {g \in Files : tpc[g] \in Suspended}} :
                  \A g \in Files : tpc[g] \in Suspended => t <= wake[g]
    /\ UNCHANGED <<variant, tvars, lock, dvars, pvars>>

NextProc ==
    \/ ProcStart
    \/ \E f \in Files : TaskEnter(f)
    \/ \E f \in Files : GateWake(f)
    \/ \E f \in Files : Respond200(f)
    \/ \E f \in Files : Respond429(f)
    \/ \E f \in Files : Respond5xx(f)
    \/ \E f \in Files : RespondOther(f)
    \/ \E f \in Files : RequestRaises(f)
    \/ \E f \in Files : RequestSlow(f)
    \/ \E f \in Files : ResponseIsLate(f)
    \/ \E f \in Files : RequestTimesOut(f)
    \/ \E f \in Files : RetryWake(f)
    \/ ProcReturn
    \/ AdvanceTime

SpecProc == InitProc /\ [][NextProc]_vars

\* the event loop runs whatever is ready, and time passes
FairSpecProc == SpecProc /\ WF_vars(NextProc)

----------------------------------------------------------------------------
(* GuaranteedLLMProcessor: one run whose only task has a long prompt *)

\* files without a task in either processor
TasklessFiles == {PackageJson}

\* lists of NumFiles files in which the file of the long prompt is the only one with a task
LongPromptLists ==
    {fs \in [Files -> TasklessFiles \cup {BulkRoutesPy}] :
        /\ \E f \in Files : fs[f] = BulkRoutesPy
        /\ \A f, g \in Files : fs[f].path = fs[g].path => f = g}

\* the state of a run before it starts, given variant, files and concurrency
InitRun ==
    /\ now = StartTime
    /\ InitLimiter
    /\ InitDriver
    /\ summary = [f \in Files |-> "None"]
    /\ tpc = [f \in Files |-> "none"]
    /\ attempt = [f \in Files |-> 0]
    /\ task_key = [f \in Files |-> 0]
    /\ wake = [f \in Files |-> 0]
    /\ gate_start = [f \in Files |-> 0]
    /\ gate_attempt = [f \in Files |-> 0]
    /\ sem = max_concurrent
    /\ run = "idle"
    /\ err_file = 0
    /\ output = <<>>
    /\ status = [f \in Files |-> 0]
    /\ nfaults = [server_errors |-> 0, timeouts |-> 0]
    /\ gate_budget = [f \in Files |-> max_wait_time]
    /\ frame = [c \in Threads |-> NoCall]

InitLongPrompt ==
    /\ variant \in {"optimized", "guaranteed"}
    /\ files \in LongPromptLists
    /\ concurrency = 1
    /\ InitRun

SpecLongPrompt == InitLongPrompt /\ [][NextProc]_vars

----------------------------------------------------------------------------
(* GuaranteedLLMProcessor: one run with a single task *)

\* lists of NumFiles files of distinct paths, the first one alone with a task
OneTaskLists ==
    {fs \in [Files -> {RoutesPy, AuthPy, PackageJson}] :
        /\ fs[1] = RoutesPy
        /\ \A f, g \in Files : fs[f].path = fs[g].path => f = g}

InitOneTask ==
    /\ variant \in {"optimized", "guaranteed"}
    /\ files \in OneTaskLists
    /\ concurrency = 1
    /\ InitRun

SpecOneTask == InitOneTask /\ [][NextProc]_vars

----------------------------------------------------------------------------
(* GuaranteedLLMProcessor: one run with two tasks *)

\* lists of NumFiles files of distinct paths, the first two alone with a task
TwoTaskLists ==
    {fs \in [Files -> {RoutesPy, HandlersPy, AuthPy, PackageJson}] :
        /\ fs[1] = RoutesPy /\ fs[2] = HandlersPy
        /\ \A f, g \in Files : fs[f].path = fs[g].path => f = g}

InitTwoTasks ==
    /\ variant \in {"optimized", "guaranteed"}
    /\ files \in TwoTaskLists
    /\ concurrency \in IF variant = "optimized" THEN 1..MaxConcurrent ELSE {1}
    /\ InitRun

SpecTwoTasks == InitTwoTasks /\ [][NextProc]_vars

----------------------------------------------------------------------------
(* Properties of the tracker *)

Selected == ret.op = "get_best_available_key" /\ ret.wait = 0

\* cost of the charges of a key that are less than 60 seconds old
TrailingCost(key) == SumTokens(SelectSeq(key_usage[key], LAMBDA e : now - e[1] < 60 * Sec))

\* C2: every call of a tracker method returns: a thread that is inside a
\* call is eventually out of it again (checked under FairSpecTracker).
C2_EveryCallReturns == \A c \in Threads : [](pc[c] # "idle" => <>(pc[c] = "idle"))

\* C5: the health score of every key stays within [0,100] after any sequence
\* of record_request, update_key_health and mark_key_failed calls.
C5_HealthBounds == \A k \in Keys : key_health[k] >= 0 /\ key_health[k] <= 100

\* a key whose health has been driven to the floor by seven failures
C5_Witness == \E k \in Keys : key_health[k] = 0 /\ key_failures[k] >= 7

C7_SelectedIsEligible ==
    Selected =>
        /\ TrailingCost(ret.key) + ret.estimated_tokens <= max_tokens_per_minute
        /\ now - key_last_call[ret.key] >= min_call_interval

\* a key is selected for a request of exactly the per-minute budget
C7_Witness == Selected /\ ret.estimated_tokens = max_tokens_per_minute

\* C8: a charge older than 60 seconds does not count: when the only charge of
\* a key has the cost of the whole per-minute budget and is at least 61
\* seconds old, a call get_best_available_key(budget) goes through, finds
\* that key available and returns with wait 0.
C8_StaleChargeExcluded ==
    \A k \in Keys, c \in Threads :
        ( /\ Len(key_usage[k]) = 1
          /\ key_usage[k][1][2] = max_tokens_per_minute
          /\ now - key_usage[k][1][1] >= 61 * Sec
          /\ ~InCooldown(k)
          /\ pc[c] = "idle" )
        => /\ LockAcquirable(lock, c)
           /\ k \in AvailableKeys(max_tokens_per_minute)
           /\ get_best_available_key_result(max_tokens_per_minute).wait = 0

----------------------------------------------------------------------------
(* Properties of the retry loop and of the processor's run *)

\* the summaries that do not come from an LLM response:
\* f"Backend file: {name}" (processor.py), f"Code file: {name}" (github_docs.py)
Placeholders == {"Backend file", "Code file"}

\* C1: generate_summary_with_guarantee always terminates: it makes at most
\* max_retries (15) attempts, and every task that has entered it comes to
\* return a summary (succeeded) or to raise the exhaustion error (exhausted).
C1_RetryLoopTerminates ==
    /\ [](\A f \in Files : attempt[f] <= max_retries)
    /\ \A f \in Files : [](tpc[f] \in InsideGenerate => <>(tpc[f] \in Finished))

\* C3: when generate_summary_with_guarantee has exhausted its attempts for a
\* file, the run has raised an error for that file, and the file has not
\* been given a placeholder summary.
C3_ExhaustionIsReported ==
    \A f \in Files :
        tpc[f] = "exhausted" =>
            /\ run = "raised" /\ err_file = f
            /\ summary[f] \notin Placeholders

\* C4: when the run has returned normally, every file for which the run
\* called the LLM carries the summary of a successful LLM response; when it
\* has raised, the error names a file whose attempts were exhausted.
C4_ReturnedMeansEnriched ==
    /\ run = "returned" => \A f \in Files : HasTask(files[f]) => summary[f] = "llm"
    /\ run = "raised" => err_file \in Files /\ tpc[err_file] = "exhausted"

\* C9: the list a run returns holds every one of the N input files exactly
\* once, and every file in it carries an LLM summary or a placeholder.
C9_ReturnsEveryFileOnce ==
    run = "returned" =>
        /\ Len(output) = NumFiles
        /\ \A f \in Files : Cardinality({i \in 1..Len(output) : output[i] = f}) = 1
        /\ \A f \in Files : summary[f] \in {"llm"} \cup Placeholders

\* at most max_concurrent tasks are inside generate_summary_with_guarantee
BoundedConcurrency ==
    Cardinality({f \in Files : tpc[f] \in InsideGenerate}) <= max_concurrent

\* C10: at most max_concurrent tasks are inside
\* generate_summary_with_guarantee at a time, and every task that waits on
\* the semaphore eventually enters.
C10_BoundedAndWaitersEnter ==
    /\ []BoundedConcurrency
    /\ \A f \in Files : [](tpc[f] = "sem_wait" => <>(tpc[f] # "sem_wait"))

----------------------------------------------------------------------------
(* Driver: one caller of wait_for_available_key_async, keys failing around it *)

\* max_wait_time arguments of the caller (the default is 300)
GateBudgets == {3 * Sec, 10 * Sec, 25 * Sec, 300 * Sec}

\* the caller: its call's locals are those of task 1
Caller == 1

InitGate ==
    /\ variant = "optimized"
    /\ now = StartTime
    /\ InitLimiter
    /\ InitDriver
    /\ InitNoRun

\* one pass of the call's loop: the call returns a key, or sleeps
GateStep(start, gattempt, budget) ==
    LET g == GateLoop(start, gattempt, budget, estimated_tokens(Caller))
    IN  /\ SetTracker(IF g.called THEN get_best_available_key(Tracker) ELSE Tracker)
        /\ IF g.kind = "key"
           THEN /\ SetTask(Caller, "returned", 0, g.key, now, start, gattempt)
                /\ ret' = [op |-> "wait_for_available_key_async", key |-> g.key,
                           selected |-> g.called /\ get_best_available_key_result(estimated_tokens(Caller)).wait = 0]
           ELSE /\ SetTask(Caller, "gate_sleep", 0, 0, now + g.delay, start, gattempt)
                /\ ret' = NoRet

\* wait_for_available_key_async(estimated_tokens, max_wait_time=budget) is called
GateCall ==
    /\ tpc[Caller] = "none"
    /\ \E budget \in GateBudgets :
        /\ gate_budget' = [gate_budget EXCEPT ![Caller] = budget]
        /\ GateStep(now, 0, budget)
    /\ UNCHANGED <<variant, now, lock, pc, ncalls, files, summary, sem, run, err_file, output,
                   status, nfaults, concurrency, frame>>

\* the call's asyncio.sleep is over: attempt += 1 and the loop goes on
GateResume ==
    /\ tpc[Caller] = "gate_sleep" /\ wake[Caller] <= now
    /\ GateStep(gate_start[Caller], gate_attempt[Caller] + 1, gate_budget[Caller])
    /\ UNCHANGED <<variant, now, lock, pc, ncalls, files, summary, sem, run, err_file, output,
                   status, nfaults, gate_budget, concurrency, frame>>

\* a request made with api_key fails: mark_key_failed
GateMarkFailed ==
    /\ tpc[Caller] # "returned"
    /\ ncalls < MaxGateFaults
    /\ \E api_key \in Keys, error_type \in ErrorTypes :
        SetTracker(mark_key_failed(Tracker, api_key, error_type))
    /\ ncalls' = ncalls + 1
    /\ ret' = NoRet
    /\ UNCHANGED <<variant, now, lock, pc, pvars>>

\* time passes: by a step of the clock before the call, up to the end of the
\* caller's sleep during it
GateTick ==
    /\ tpc[Caller] # "returned"
    /\ IF tpc[Caller] = "gate_sleep"
       THEN wake[Caller] > now /\ now' = wake[Caller]
       ELSE \E d \in TickSteps : now + d <= StartTime + MaxClock * Sec /\ now' = now + d
    /\ ret' = NoRet
    /\ UNCHANGED <<variant, tvars, lock, pc, ncalls, pvars>>

NextGate == GateCall \/ GateResume \/ GateMarkFailed \/ GateTick

SpecGate == InitGate /\ [][NextGate]_vars

----------------------------------------------------------------------------
(* Properties of wait_for_available_key_async *)

\* C11: every call of wait_for_available_key_async terminates and returns
\* a credential: a task suspended in the call's sleep eventually leaves the
\* call (with the selected key, or with the key of the highest health once
\* the next delay would exceed the remaining budget).
C11_GateTerminates ==
    \A f \in Files : [](tpc[f] = "gate_sleep" => <>(tpc[f] # "gate_sleep"))

----------------------------------------------------------------------------
(* Driver: one caller that updates the keys' health and selects a key *)

\* time passes until the cooldown of a key is over
CooldownEnds ==
    \E key \in Keys :
        /\ key_cooldown[key] > now
        /\ now' = key_cooldown[key]
        /\ ret' = NoRet
        /\ UNCHANGED <<variant, tvars, lock, pc, ncalls, pvars>>

NextSelect ==
    \/ CallUpdateKeyHealth(1, MaxSelectCalls)
    \/ CallMarkKeyFailed(1, MaxSelectCalls)
    \/ CooldownEnds
    \/ CallGetBestAvailableKey(1)

SpecSelect == InitTracker /\ [][NextSelect]_vars

----------------------------------------------------------------------------
(* Driver: one caller whose keys fail and who asks for a key while they cool down *)

\* how long before the end of a cooldown the caller comes back
Leads == {Sec, 5 * Sec}

\* time passes until the cooldown of a key is nearly over
CooldownNearlyEnds ==
    \E key \in Keys, lead \in Leads :
        /\ key_cooldown[key] - lead > now
        /\ now' = key_cooldown[key] - lead
        /\ ret' = NoRet
        /\ UNCHANGED <<variant, tvars, lock, pc, ncalls, pvars>>

NextWaits ==
    \/ CallMarkKeyFailed(1, MaxWaitCalls)
    \/ CooldownNearlyEnds
    \/ CooldownEnds
    \/ CallGetBestAvailableKey(1)

SpecWaits == InitTracker /\ [][NextWaits]_vars

----------------------------------------------------------------------------
(* Driver: one caller who records requests, marks keys failed and selects *)

NextDriven ==
    \/ CallMarkKeyFailed(1, MaxWaitCalls)
    \/ CallRecordRequest(1, MaxWaitCalls)
    \/ CooldownNearlyEnds
    \/ CooldownEnds
    \/ CallGetBestAvailableKey(1)

SpecDriven == InitTracker /\ [][NextDriven]_vars

----------------------------------------------------------------------------
(* Driver: one caller whose requests are rate limited again and again *)

\* mark_key_failed(api_key, "rate_limit"); the call is noted in ret
CallMarkRateLimited(c, budget) ==
    \E k \in Keys :
        /\ pc[c] = "idle" /\ ncalls < budget
        /\ LockAcquirable(lock, c)
        /\ SetTracker(mark_key_failed(Tracker, k, "rate_limit"))
        /\ ret' = [op |-> "mark_key_failed", key |-> k, error_type |-> "rate_limit"]
        /\ ncalls' = ncalls + 1
        /\ UNCHANGED <<variant, now, lock, pc, pvars>>

NextRateLimited == Tick \/ CallMarkRateLimited(1, MaxRateLimits)

SpecRateLimited == InitTracker /\ [][NextRateLimited]_vars

----------------------------------------------------------------------------
(* Driver: one caller whose requests fail again and again, for either reason *)

\* mark_key_failed(api_key, error_type); the call is noted in ret
CallMarkFailed(c, budget) ==
    \E k \in Keys, e \in ErrorTypes :
        /\ pc[c] = "idle" /\ ncalls < budget
        /\ LockAcquirable(lock, c)
        /\ SetTracker(mark_key_failed(Tracker, k, e))
        /\ ret' = [op |-> "mark_key_failed", key |-> k, error_type |-> e]
        /\ ncalls' = ncalls + 1
        /\ UNCHANGED <<variant, now, lock, pc, pvars>>

NextFailing == Tick \/ CallMarkFailed(1, MaxRateLimits)

SpecFailing == InitTracker /\ [][NextFailing]_vars

----------------------------------------------------------------------------
(* Driver: the eligibility filter applied to one file *)

\* what the path tests of the two filters yield for a path
PathTests(path, names_service, names_backend, names_main, config_optimized, config_guaranteed) ==
    [path |-> path, names_service |-> names_service, names_backend |-> names_backend,
     names_main |-> names_main, config_optimized |-> config_optimized,
     config_guaranteed |-> config_guaranteed]

Paths ==
    { PathTests("server/routes.py", TRUE, TRUE, FALSE, FALSE, FALSE),
      PathTests("utils/helpers.py", FALSE, TRUE, FALSE, FALSE, FALSE),
      PathTests("package.json", FALSE, FALSE, FALSE, TRUE, TRUE),
      PathTests("src/index.js", TRUE, FALSE, TRUE, FALSE, FALSE),
      PathTests("README.md", FALSE, FALSE, FALSE, TRUE, FALSE),
      PathTests("src/components/Button.jsx", FALSE, FALSE, FALSE, FALSE, FALSE),
      PathTests("server/config.py", TRUE, TRUE, FALSE, TRUE, TRUE) }

\* the files the filter is applied to: every path with every service type
\* and every number of extracted functions, classes and endpoints
FilterInputs ==
    { File(p.path, backend, p.names_service, p.names_backend, p.names_main,
           p.config_optimized, p.config_guaranteed, functions, classes, api_endpoints, "text") :
        p \in Paths, backend \in BOOLEAN, functions \in 0..MaxFunctions,
        classes \in 0..1, api_endpoints \in 0..1 }

InitFilter ==
    /\ variant \in {"optimized", "guaranteed"}
    /\ now = StartTime
    /\ InitLimiter
    /\ InitDriver
    /\ InitNoRun

\* _should_process_file_optimized(file) / _should_process_with_llm_guaranteed(file)
CallShouldProcess ==
    \E file \in FilterInputs :
        /\ ret' = [op |-> "should_process", file |-> file, accepted |-> ShouldProcess(file)]
        /\ UNCHANGED <<variant, now, tvars, lock, pc, ncalls, pvars>>

NextFilter == CallShouldProcess

SpecFilter == InitFilter /\ [][NextFilter]_vars

----------------------------------------------------------------------------
(* Properties of the selection among available keys *)

\* the score of the specification, times max_tokens_per_minute:
\* key_health - 50 * (cost in the window / max_tokens_per_minute) - 10 * key_failures
SpecScore(key) ==
    key_health[key] * max_tokens_per_minute - 50 * TrailingCost(key)
        - 10 * key_failures[key] * max_tokens_per_minute

\* C13: the key get_best_available_key returns with wait 0 is available, no
\* available key has a higher score, and among the available keys of that
\* score it is the first in the order of api_keys.
C13_ReturnsMaxScoreFirst ==
    Selected =>
        /\ ret.key \in AvailableKeys(ret.estimated_tokens)
        /\ \A b \in AvailableKeys(ret.estimated_tokens) :
              /\ SpecScore(ret.key) >= SpecScore(b)
              /\ SpecScore(ret.key) = SpecScore(b) => ret.key <= b

\* the second key is selected although the first is available too
C13_Witness ==
    /\ Selected
    /\ ret.key # api_keys[1]
    /\ api_keys[1] \in AvailableKeys(ret.estimated_tokens)

MarkedThrice(key) ==
    key_failures[key] = 3 /\ key_health[key] = 100 - 3 * 15 /\ key_success_count[key] = 0

\* a key whose health has never been updated
Untouched(key) ==
    key_failures[key] = 0 /\ key_health[key] = 100 /\ key_success_count[key] = 0

----------------------------------------------------------------------------
(* Properties of the wait returned when no key is available *)

\* get_best_available_key has returned without selecting a key
NotSelected == ret.op = "get_best_available_key" /\ ret.wait # 0

\* no key
Null == 0

\* max(cooldown_remaining, token_window_wait, spacing_wait) of a key: the
\* token window wait is 61 s less the age of the key's oldest charge
SpecWait(key) ==
    LET cooldown_remaining == Max(0, key_cooldown[key] - now)
        token_window_wait ==
            IF key_usage[key] = <<>> THEN 0
            ELSE Max(0, 61 * Sec - (now - OldestTime(key_usage[key])))
        spacing_wait == Max(0, min_call_interval - (now - key_last_call[key]))
    IN  Max(cooldown_remaining, Max(token_window_wait, spacing_wait))

----------------------------------------------------------------------------
(* Properties of the cooldown *)

\* C16: every mark_key_failed(key, "rate_limit") call of a sequence of such
\* calls at non-decreasing times leaves the key's cooldown_until no earlier
\* than it was, and 30 * min(key_failures, 5) seconds after the time of the
\* call: 30 s more than the call before up to the fifth failure, 150 s from
\* then on.
C16_CooldownMonotone ==
    [][\A k \in Keys :
          (ret'.op = "mark_key_failed" /\ ret'.key = k) =>
              /\ key_failures'[k] = key_failures[k] + 1
              /\ key_cooldown'[k] >= key_cooldown[k]
              /\ key_cooldown'[k] - now' = 30 * Min(key_failures'[k], 5) * Sec
              /\ key_failures'[k] >= 5 => key_cooldown'[k] - now' = 150 * Sec]_vars

\* a key has just been marked for the seventh time: its cooldown has
\* stayed at 150 s since the fifth
C16_Witness ==
    /\ ret.op = "mark_key_failed"
    /\ key_failures[ret.key] = 7
    /\ key_cooldown[ret.key] = now + 150 * Sec

----------------------------------------------------------------------------
(* Properties of the files the filter rejects *)

\* C17: once the run has gone through the filter, every file the filter
\* rejects carries a placeholder summary, and no task, request or retry
\* exists for it.
C17_RejectedGetPlaceholder ==
    run # "idle" =>
        \A f \in Files :
            ~ShouldProcess(files[f]) =>
                /\ summary[f] \in Placeholders
                /\ tpc[f] = "none" /\ attempt[f] = 0 /\ status[f] = 0

----------------------------------------------------------------------------
(* Properties of the eligibility filter *)

\* the backend/API signal of a file: its path, its service type, and in
\* github_docs.py also its having API endpoints
Signal(file) ==
    IF variant = "optimized"
    THEN file.service_backend \/ file.names_service
    ELSE file.api_endpoints > 0 \/ file.names_backend \/ file.names_main

\* the file is a configuration or manifest file
IsConfig(file) ==
    IF variant = "optimized" THEN file.config_optimized ELSE file.config_guaranteed

\* C18: the filter accepts a file exactly when it shows a backend/API
\* signal, has at least one extracted function, class or endpoint, and is
\* not a configuration file; a .json file without functions, classes and
\* endpoints is rejected and server/routes.py with two functions accepted.
C18_FilterRule ==
    ret.op = "should_process" =>
        /\ ret.accepted <=>
              /\ Signal(ret.file)
              /\ ret.file.functions > 0 \/ ret.file.classes > 0 \/ ret.file.api_endpoints > 0
              /\ ~IsConfig(ret.file)
        /\ ( /\ ret.file.path = "package.json"
             /\ ret.file.functions = 0 /\ ret.file.classes = 0 /\ ret.file.api_endpoints = 0 )
               => ~ret.accepted
        /\ (ret.file.path = "server/routes.py" /\ ret.file.functions = 2) => ret.accepted

----------------------------------------------------------------------------
(* Properties of the attempts' outcomes *)

\* the statuses after which generate_summary_with_guarantee tries again
FailureStatuses == {429, 503, 400}

\* C19: a response of status 200 is recorded as a success of the key used
\* (its charge and its success count), a response of status 429 or 5xx marks
\* the key failed, and an attempt that ended in a failure status is followed
\* by the next attempt as long as attempts are left.
C19_OutcomesRecordedAndRetried ==
    /\ [](\A f \in Files :
            /\ status[f] = 200 =>
                  key_usage[task_key[f]] # <<>> /\ key_success_count[task_key[f]] >= 1
            /\ status[f] \in {429, 503} => key_failures[task_key[f]] >= 1)
    /\ \A f \in Files : \A n \in 0..(max_retries - 2) :
          []((attempt[f] = n /\ status[f] \in FailureStatuses /\ tpc[f] \in {"retry_sleep", "blocked"})
                => <>(attempt[f] = n + 1))

\* an attempt of task f ends with this step
AttemptEnds(f) ==
    tpc[f] = "request" /\ tpc'[f] \in {"retry_sleep", "blocked", "succeeded", "exhausted"}

\* C20: an attempt that ends with a failure status leaves key_failures of
\* the key it used higher by exactly 1, an attempt that ends with status 200
\* leaves it lower by 1 or at 0; key_failures is never negative.
C20_FailureCountTracksAttempts ==
    /\ [](\A k \in Keys : key_failures[k] >= 0)
    /\ [][\A f \in Files :
             AttemptEnds(f) =>
                 /\ status'[f] \in FailureStatuses =>
                        key_failures'[task_key[f]] = key_failures[task_key[f]] + 1
                 /\ status'[f] = 200 =>
                        key_failures'[task_key[f]] = Max(0, key_failures[task_key[f]] - 1)]_vars

----------------------------------------------------------------------------
(* Properties of the per-minute budget *)

\* C21: for every key, the charges recorded against it within the trailing
\* 60 seconds never sum to more than max_tokens_per_minute, whatever the
\* tasks that acquire their keys through wait_for_available_key_async do.
C21_WindowWithinBudget ==
    \A key \in Keys : TrailingCost(key) <= max_tokens_per_minute

----------------------------------------------------------------------------
(* Properties of the retry delays *)

\* retry_delays of generate_summary_with_guarantee, in seconds
Schedule == <<1, 2, 5, 10, 15, 20, 30, 45, 60, 90, 120, 180, 240, 300, 360>>

\* C22: after failed attempt k that is followed by another attempt, the
\* task sleeps exactly Schedule[min(k, len - 1)] seconds (0-based k) before
\* the next attempt, whatever the outcome of attempt k was: the sleep
\* starts when the attempt ends and the next attempt starts when it is over.
C22_RetryDelayFollowsSchedule ==
    [][\A f \in Files :
          /\ (tpc[f] # "retry_sleep" /\ tpc'[f] = "retry_sleep") =>
                 wake'[f] - now = Schedule[Min(attempt[f], Len(Schedule) - 1) + 1] * Sec
          /\ (tpc[f] = "retry_sleep" /\ attempt'[f] = attempt[f] + 1) =>
                 now = wake[f]]_vars

\* a third attempt under way, after a server error and a client timeout
C22_Witness ==
    \E f \in Files :
        /\ attempt[f] >= 2 /\ tpc[f] = "request"
        /\ nfaults.server_errors >= 1 /\ nfaults.timeouts >= 1

----------------------------------------------------------------------------
(* Driver: threads that run the tracker's methods statement by statement *)

\* the calls a thread may make
StepCalls ==
    [op : {"update_key_health"}, key : Keys, arg : BOOLEAN, read : {0}] \cup
    [op : {"mark_key_failed"}, key : Keys, arg : ErrorTypes, read : {0}] \cup
    [op : {"record_request"}, key : Keys, arg : BOOLEAN, read : {0}] \cup
    [op : {"get_best_available_key"}, key : {api_keys[1]}, arg : {TRUE}, read : {0}]

\* what the body of a call reads before it writes: the counters of its key,
\* or the usage lists that get_best_available_key cleans
Counters(call) ==
    IF call.op = "get_best_available_key"
    THEN key_usage
    ELSE [key_failures |-> key_failures[call.key], key_health |-> key_health[call.key],
          key_success_count |-> key_success_count[call.key]]

\* the tracker with the values the call has read in place of the current ones
TrackerAsRead(call) ==
    IF call.op = "get_best_available_key"
    THEN [Tracker EXCEPT !.key_usage = call.read]
    ELSE [Tracker EXCEPT !.key_failures[call.key] = call.read.key_failures,
                         !.key_health[call.key] = call.read.key_health,
                         !.key_success_count[call.key] = call.read.key_success_count]

\* the tracker as the body of the call leaves it, computed from what it has read
Written(call) ==
    LET t == TrackerAsRead(call)
    IN  IF call.op = "update_key_health" THEN update_key_health(t, call.key, call.arg)
        ELSE IF call.op = "mark_key_failed" THEN mark_key_failed(t, call.key, call.arg)
        ELSE [t EXCEPT !.key_usage =
                 [key \in Keys |->
                     IF InCooldown(key) THEN key_usage[key]
                     ELSE SelectSeq(call.read[key], LAMBDA e : e[1] > now - 60 * Sec)]]

InitSteps == InitTracker

\* a thread calls a method: it arrives at the method's `with self.lock`
StepCall(c) ==
    \E call \in StepCalls :
        /\ pc[c] = "idle" /\ ncalls < MaxCalls
        /\ pc' = [pc EXCEPT ![c] = "acquire"]
        /\ frame' = [frame EXCEPT ![c] = call]
        /\ ncalls' = ncalls + 1
        /\ ret' = NoRet
        /\ UNCHANGED <<variant, now, tvars, lock, files, summary, tpc, attempt, task_key, wake,
                       gate_start, gate_attempt, sem, run, err_file, output, status, nfaults,
                       gate_budget, concurrency>>

\* `with self.lock`: the thread gets the lock
StepAcquire(c) ==
    /\ pc[c] = "acquire"
    /\ LockAcquirable(lock, c)
    /\ lock' = c
    /\ pc' = [pc EXCEPT ![c] = "locked"]
    /\ UNCHANGED <<variant, now, tvars, ret, ncalls, pvars>>

\* the body reads the values it is going to update
StepRead(c) ==
    /\ pc[c] = "locked" /\ frame[c].op # "record_request"
    /\ frame' = [frame EXCEPT ![c].read = Counters(frame[c])]
    /\ pc' = [pc EXCEPT ![c] = "read"]
    /\ UNCHANGED <<variant, now, tvars, lock, ret, ncalls, files, summary, tpc, attempt,
                   task_key, wake, gate_start, gate_attempt, sem, run, err_file, output, status,
                   nfaults, gate_budget, concurrency>>

\* the body writes the updated values, the `with` block ends and releases the lock
StepWrite(c) ==
    /\ pc[c] = "read"
    /\ SetTracker(Written(frame[c]))
    /\ lock' = Free
    /\ pc' = [pc EXCEPT ![c] = "idle"]
    /\ UNCHANGED <<variant, now, ret, ncalls, pvars>>

\* record_request: the charge, then the call of update_key_health, whose
\* `with self.lock` the thread cannot pass while it holds the lock itself
StepCharge(c) ==
    /\ pc[c] = "locked" /\ frame[c].op = "record_request"
    /\ LET r == record_request(Tracker, c, frame[c].key, max_tokens_per_minute, frame[c].arg)
       IN  /\ SetTracker([Tracker EXCEPT !.key_usage = r.tracker.key_usage,
                                         !.key_last_call = r.tracker.key_last_call])
           /\ IF r.blocked
              THEN /\ pc' = [pc EXCEPT ![c] = "update_key_health"]
                   /\ frame' = frame
              ELSE /\ pc' = [pc EXCEPT ![c] = "locked"]
                   /\ frame' = [frame EXCEPT ![c].op = "update_key_health"]
    /\ UNCHANGED <<variant, now, lock, ret, ncalls, files, summary, tpc, attempt,
                   task_key, wake, gate_start, gate_attempt, sem, run, err_file, output, status,
                   nfaults, gate_budget, concurrency>>

NextSteps ==
    \/ \E c \in Threads : StepCall(c)
    \/ \E c \in Threads : StepAcquire(c)
    \/ \E c \in Threads : StepRead(c)
    \/ \E c \in Threads : StepWrite(c)
    \/ \E c \in Threads : StepCharge(c)

SpecSteps == InitSteps /\ [][NextSteps]_vars

----------------------------------------------------------------------------
(* Properties of the lock *)

\* positions inside a `with self.lock` block
InsideLock == {"locked", "read", "update_key_health"}

\* C23: every change of a key's counters is made by a thread that holds the
\* lock, a thread inside a `with self.lock` block is the holder, and what a
\* thread has read is still the current value when it writes the update
\* back: read-modify-write sequences never interleave, no update is lost.
C23_MutationsUnderLock ==
    /\ [](\A c \in Threads : pc[c] \in InsideLock => lock = c)
    /\ [][ /\ tvars' # tvars => \E c \in Threads : lock = c /\ pc[c] \in InsideLock
           /\ \A c \in Threads :
                 (pc[c] = "read" /\ pc'[c] = "idle") => frame[c].read = Counters(frame[c]) ]_vars

\* a thread is between its read and its write of a key's counters while the
\* other thread waits for the lock with an update of the same key
C23_Witness ==
    \E c, d \in Threads :
        /\ c # d
        /\ pc[c] = "read" /\ pc[d] = "acquire"
        /\ frame[c].op = "mark_key_failed" /\ frame[d].op = "update_key_health"
        /\ frame[c].key = frame[d].key
        /\ key_failures[frame[c].key] >= 1

----------------------------------------------------------------------------
(* Properties of record_request *)

\* the fields of key j are the same before and after the step
KeyUnchanged(j) ==
    /\ key_usage'[j] = key_usage[j] /\ key_last_call'[j] = key_last_call[j]
    /\ key_failures'[j] = key_failures[j] /\ key_health'[j] = key_health[j]
    /\ key_cooldown'[j] = key_cooldown[j] /\ key_success_count'[j] = key_success_count[j]

\* C24: record_request(key, cost, success) appends the one charge
\* (now, cost) to the key's usage, sets its key_last_call to now, applies
\* the health delta (+5 up to 100 on success, -10 down to 0 on failure), and
\* leaves the key's cooldown and all other keys as they were.
C24_RecordRequestEffect ==
    [][\A c \in Threads :
          (frame[c].op # "record_request" /\ frame'[c].op = "record_request") =>
              LET call == frame'[c]
              IN  /\ key_usage'[call.key] = Append(key_usage[call.key], <<now, call.tokens_used>>)
                  /\ key_last_call'[call.key] = now
                  /\ key_health'[call.key] =
                        IF call.arg THEN Min(100, key_health[call.key] + 5)
                        ELSE Max(0, key_health[call.key] - 10)
                  /\ key_cooldown'[call.key] = key_cooldown[call.key]
                  /\ \A j \in Keys \ {call.key} : KeyUnchanged(j)]_vars

----------------------------------------------------------------------------
(* Properties of the cooldown under failures of both kinds *)

\* C25: no mark_key_failed call, whatever its reason, moves the cooldown
\* of its key to an earlier time than it was before the call.
C25_CooldownNeverEarlier ==
    [][\A k \in Keys :
          (ret'.op = "mark_key_failed" /\ ret'.key = k) =>
              key_cooldown'[k] >= key_cooldown[k]]_vars

----------------------------------------------------------------------------
(* Properties of the attempts that end without a response *)

\* C26: an attempt that ends in the client timeout or in an exception of
\* the request leaves all fields of all keys as they were, and still counts:
\* the task sleeps the delay scheduled for the attempt, and what follows the
\* sleep has the next attempt number.  The selection at the start of the
\* attempt changes nothing either: it only drops stale charges, and no
\* charge exists while a task is still able to run.
C26_FailedRequestLeavesTracker ==
    /\ [](~ThreadBlocked => \A k \in Keys : key_usage[k] = <<>>)
    /\ [][\A f \in Files :
          /\ (tpc[f] \in {"request", "request_slow"} /\ tpc'[f] = "retry_sleep" /\ status'[f] = 0) =>
                 /\ tvars' = tvars
                 /\ attempt'[f] = attempt[f]
                 /\ wake'[f] = now + Schedule[attempt[f] + 1] * Sec
          /\ (tpc[f] = "retry_sleep" /\ tpc'[f] # "retry_sleep") =>
                 attempt'[f] = attempt[f] + 1]_vars

\* a task sleeps after an attempt that ended without a response, on a key
\* that has failed before
C26_Witness ==
    \E f \in Files :
        /\ tpc[f] = "retry_sleep" /\ status[f] = 0
        /\ attempt[f] >= 1
        /\ key_failures[task_key[f]] >= 1

----------------------------------------------------------------------------
(* Properties of the two definitions of get_best_available_key *)

\* C27: constructed with the same parameters and driven by the same calls
\* of record_request, mark_key_failed and get_best_available_key at the same
\* times, the limiter of github_docs.py and the one of rate_limiter.py
\* return the same (key, wait) pair at every get_best_available_key call.
C27_DefinitionsAgree ==
    [][ret'.op = "get_best_available_key" =>
          get_best_available_key_of("guaranteed", ret'.estimated_tokens) =
              get_best_available_key_of("optimized", ret'.estimated_tokens)]_vars

----------------------------------------------------------------------------
(* Properties of the calls that only read *)

C30_SnapshotReadsOnly ==
    [][ret'.op = "get_key_stats" =>
          /\ tvars' = tvars
          /\ \A key \in Keys :
                /\ ret'.stats[key].health = key_health[key]
                /\ ret'.stats[key].failures = key_failures[key]
                /\ ret'.stats[key].successes = key_success_count[key]
                /\ ret'.stats[key].in_cooldown <=> key_cooldown[key] > now
                /\ ret'.stats[key].cooldown_remaining =
                      IF key_cooldown[key] > now THEN key_cooldown[key] - now ELSE 0]_vars

\* a snapshot taken while one key is in cooldown and another key, whose
\* cooldown is over, has had a success
C30_Witness ==
    /\ ret.op = "get_key_stats"
    /\ \E key \in Keys : ret.stats[key].in_cooldown /\ ret.stats[key].failures >= 1
    /\ \E key \in Keys :
          /\ ret.stats[key].successes >= 1
          /\ key_cooldown[key] > 0 /\ ~ret.stats[key].in_cooldown

----------------------------------------------------------------------------
(* Properties of the order of a task's attempts *)

\* C29: the attempts of one file follow one another: attempt N+1 starts
\* only from the retry sleep of attempt N, when that sleep is over, with the
\* failure of attempt N already marked on its key, and no attempt number is
\* skipped, whatever the other file's task does in between.
C29_AttemptsAreSequential ==
    [][\A f \in Files :
          /\ attempt'[f] \in {attempt[f], attempt[f] + 1}
          /\ attempt'[f] = attempt[f] + 1 =>
                /\ tpc[f] = "retry_sleep" /\ wake[f] <= now
                /\ status[f] \in {429, 503} => key_failures[task_key[f]] >= 1
          /\ (tpc'[f] = "request" /\ tpc[f] # "request") =>
                tpc[f] \in {"sem_wait", "queued", "gate_sleep", "retry_sleep"}]_vars

\* both tasks are past their first attempt, one of them in its third
C29_Witness ==
    /\ \A f \in {1, 2} : attempt[f] >= 1 /\ tpc[f] \in Suspended
    /\ \E f \in {1, 2} : attempt[f] >= 2 /\ tpc[f] = "request"

====
